---- MODULE Spec2Model ----
(***************************************************************************)
(* Model of Math_Library/prime.py: the wheel sieve _primes_list, the       *)
(* Miller-Rabin test _is_prime, the Moebius table _mobius_list, Pollard's  *)
(* rho, prime_divisor_decomposition and all_divisors.                      *)
(*                                                                         *)
(* Python integers are unbounded; the model keeps every intermediate value *)
(* below 2^31 by reducing products modulo the modulus digit by digit.      *)
(***************************************************************************)
EXTENDS Integers, Sequences, FiniteSets, TLC

(***************************************************************************)
(* Arithmetic consumed from `base` and from Python itself.                 *)
(***************************************************************************)

Abs(a) == IF a < 0 THEN -a ELSE a

\* F applied to the value of v. Unlike LET, v is evaluated once even where
\* an expression is evaluated inside ENABLED.
Bind(v, F(_)) == CHOOSE r \in {F(x) : x \in {v}} : TRUE

RECURSIVE gcd(_, _)
\* base.gcd: the exact greatest common divisor, a non-negative integer.
gcd(a, b) ==
    IF b = 0 THEN Abs(a)
    ELSE Bind(Abs(a) % Abs(b), LAMBDA r : gcd(b, r))

RECURSIVE isqrtBetween(_, _, _)
\* The r with lo <= r < hi and r*r <= n < (r+1)*(r+1), by bisection.
isqrtBetween(n, lo, hi) ==
    IF hi - lo <= 1 THEN lo
    ELSE Bind((lo + hi) \div 2, LAMBDA mid :
              IF mid <= n \div mid THEN isqrtBetween(n, mid, hi)
              ELSE isqrtBetween(n, lo, mid))

\* base.isqrt, and int(sqrt(n)): the floor of the square root of n >= 0.
isqrt(n) == IF n < 1 THEN 0 ELSE isqrtBetween(n, 1, n + 1)

RECURSIVE MulMod(_, _, _)
\* (a * b) % m for 0 <= a, b < m, one octal digit of b at a time, so that no
\* intermediate value exceeds 15 * m.
MulMod(a, b, m) ==
    IF b = 0 THEN 0
    ELSE (MulMod(a, b \div 8, m) * 8 + a * (b % 8)) % m

RECURSIVE pow(_, _, _)
\* Python's three-argument pow(b, e, m), e >= 0, m >= 1, by repeated squaring.
pow(b, e, m) ==
    IF e = 0 THEN 1 % m
    ELSE Bind(pow(b, e \div 2, m), LAMBDA h :
         Bind(MulMod(h, h, m), LAMBDA s :
              IF e % 2 = 1 THEN MulMod(s, b % m, m) ELSE s))

RECURSIVE cprod(_)
\* base.cprod: the product of a sequence of integers (1 for the empty one).
cprod(s) == IF s = <<>> THEN 1 ELSE Head(s) * cprod(Tail(s))

RECURSIVE IntPow(_, _)
\* Python's b ** e for e >= 0.
IntPow(b, e) == IF e = 0 THEN 1 ELSE b * IntPow(b, e - 1)

Range(s) == {s[j] : j \in DOMAIN s}

(***************************************************************************)
(* _primes_list(n): wheel sieve over the residues coprime to 6.            *)
(***************************************************************************)

\* sieve[start::step] = False on a boolean array indexed from 0.
SliceClear(sieve, start, step) ==
    [j \in DOMAIN sieve |->
        IF j >= start /\ (j - start) % step = 0 THEN FALSE ELSE sieve[j]]

SieveBody_oneSlice(sieve, i) ==
    IF sieve[i]
    THEN LET k == IF (3 * i + 1) % 2 = 0 THEN 3 * i + 2 ELSE 3 * i + 1
         IN  SliceClear(sieve, (k * k) \div 3, 2 * k)
    ELSE sieve

\* The body of the loop over i.
SieveBody(sieve, i) ==
    IF sieve[i]
    THEN LET k == IF (3 * i + 1) % 2 = 0 THEN 3 * i + 2 ELSE 3 * i + 1
             s1 == SliceClear(sieve, (k * k) \div 3, 2 * k)
         IN  SliceClear(s1, (k * (k - 2 * (i % 2) + 4)) \div 3, 2 * k)
    ELSE sieve

RECURSIVE SieveLoop(_, _, _)
\* for i in range(from, upTo + 1)
SieveLoop(sieve, from, upTo) ==
    IF from > upTo THEN sieve
    ELSE SieveLoop(SieveBody(sieve, from), from + 1, upTo)

\* np.ones(n//3 + (n % 6 == 2)), indexed 0 .. len-1.
SieveInitial(n) ==
    [j \in 0 .. ((n \div 3) + (IF n % 6 = 2 THEN 1 ELSE 0) - 1) |-> TRUE]

RECURSIVE Survivors(_, _, _)
\* The True indices lo .. hi of the sieve, ascending, each mapped through
\* (3*j + 1) | 1. The range is halved so that the nesting stays shallow.
Survivors(sieve, lo, hi) ==
    IF lo > hi THEN <<>>
    ELSE IF lo = hi
         THEN (IF sieve[lo]
               THEN <<IF (3 * lo + 1) % 2 = 0 THEN 3 * lo + 2 ELSE 3 * lo + 1>>
               ELSE <<>>)
         ELSE LET mid == (lo + hi) \div 2
              IN  Survivors(sieve, lo, mid) \o Survivors(sieve, mid + 1, hi)

\* np.nonzero(sieve)[0][1:]: every True index but the first one.
NonzeroTail(sieve) ==
    LET nz == {j \in DOMAIN sieve : sieve[j]}
    IN  IF nz = {} THEN <<>>
        ELSE LET first == CHOOSE j \in nz : \A h \in nz : j <= h
             IN  Survivors(sieve, first + 1, Cardinality(DOMAIN sieve) - 1)

_primes_list(n) ==
    LET sieve == SieveLoop(SieveInitial(n), 1, isqrt(n) \div 3)
    IN  <<2, 3>> \o NonzeroTail(sieve)

(***************************************************************************)
(* _is_prime(p, accuracy): Miller-Rabin.                                   *)
(***************************************************************************)

RECURSIVE _mr_decompose_loop(_, _)
_mr_decompose_loop(exponentOfTwo, n) ==
    IF n % 2 = 0 THEN _mr_decompose_loop(exponentOfTwo + 1, n \div 2)
    ELSE <<exponentOfTwo, n>>

\* Returns <<exponentOfTwo, n>> with the argument equal to 2^exponentOfTwo * n.
_mr_decompose(n) == _mr_decompose_loop(0, n)

RECURSIVE _mr_squarings(_, _, _)
\* for _ in range(exponent): square, return False as soon as p - 1 shows up.
_mr_squarings(possibleWitness, p, left) ==
    IF left = 0 THEN TRUE
    ELSE Bind(pow(possibleWitness, 2, p), LAMBDA w :
              IF w = p - 1 THEN FALSE ELSE _mr_squarings(w, p, left - 1))

_mr_isWitness_noMinusOne(possibleWitness, p, exponent, remainder) ==
    Bind(pow(possibleWitness, remainder, p), LAMBDA w :
         IF w = 1 THEN FALSE ELSE _mr_squarings(w, p, exponent))

_mr_isWitness(possibleWitness, p, exponent, remainder) ==
    Bind(pow(possibleWitness, remainder, p), LAMBDA w :
         IF w = 1 \/ w = p - 1 THEN FALSE ELSE _mr_squarings(w, p, exponent))

(***************************************************************************)
(* _mobius_list(n).                                                        *)
(***************************************************************************)

\* mlist[::p] *= -p ; mlist[::p*p] = 0
MobiusSievePrime(mlist, p) ==
    LET scaled == [j \in DOMAIN mlist |->
                      IF j % p = 0 THEN mlist[j] * (-p) ELSE mlist[j]]
    IN  [j \in DOMAIN mlist |-> IF j % (p * p) = 0 THEN 0 ELSE scaled[j]]

RECURSIVE MobiusSieve(_, _, _)
\* for p in plist
MobiusSieve(mlist, plist, j) ==
    IF j > Len(plist) THEN mlist
    ELSE MobiusSieve(MobiusSievePrime(mlist, plist[j]), plist, j + 1)

\* The magnitude test that decides the sign flip of entry i.
MobiusFlip_atMost(v, i) == Abs(v) <= i

MobiusFlip(v, i) == Abs(v) < i

\* The body of the loop over i = 1 .. n; entry 0 is left as the sieve set it.
MobiusNormalize(mlist) ==
    [i \in DOMAIN mlist |->
        IF i = 0 \/ mlist[i] = 0 THEN mlist[i]
        ELSE LET v == IF MobiusFlip(mlist[i], i) THEN -mlist[i] ELSE mlist[i]
             IN  IF v > 0 THEN 1 ELSE -1]

_mobius_list(n) ==
    LET plist == _primes_list(isqrt(n) + 1)
        ones == [j \in 0 .. n |-> 1]
    IN  MobiusNormalize(MobiusSieve(ones, plist, 1))

(***************************************************************************)
(* Module-level tables of prime_divisor_decomposition.                     *)
(***************************************************************************)

\* The argument of the call primes_list(10000) that fills P10K.
P10KBound == 10000

\* The default of _is_prime's accuracy parameter, used by the call is_prime(n).
DefaultAccuracy == 100

\* random.randrange(2, 1e6) draws from 2 .. SeedEnd - 1.
SeedEnd == 1000000

(***************************************************************************)
(* Bounds of the model and the inputs it draws.                            *)
(***************************************************************************)

MaxSieveArg == 120      \* _primes_list(n) for 6 <= n <= MaxSieveArg
MaxMobiusArg == 130     \* _mobius_list(n) for 1 <= n <= MaxMobiusArg
MaxIsPrimeArg == 31     \* _is_prime(p, .) for 0 <= p <= MaxIsPrimeArg
MaxAccuracy == 2        \* _is_prime(., accuracy) for 0 <= accuracy <= MaxAccuracy
MaxRhoArg == 36         \* _pollard_rho(n, .) for 1 <= n <= MaxRhoArg
MaxSmallArg == 30       \* factorisation and divisors of 0 <= n <= MaxSmallArg
MaxSeed == 3            \* random seeds x, c drawn from 2 .. MaxSeed
MaxFullDraw == 40       \* every witness 2 .. p-2 is drawn when p <= MaxFullDraw
MaxExp == 31            \* cap of the exponent counter of the factor-2 loop

\* Inputs whose cofactor survives the trial division by P10K: a prime, twice a
\* prime, a prime square, and two products of two distinct primes.
BigArgs == {10007, 20014, 100140049, 102008911, 104405461}

\* The witnesses random.randint(2, p - 2) is taken to draw.
Draws(p) ==
    IF p <= MaxFullDraw THEN 2 .. (p - 2) ELSE {2, p - 2}

\* The seeds (x, c) the random branch of _pollard_rho is taken to draw.
Seeds == {s \in 2 .. MaxSeed : s < SeedEnd}

(***************************************************************************)
(* State: one interpreter running one top-level call at a time.            *)
(***************************************************************************)

VARIABLES
    P10K,   \* the module-level list primes_list(10000), filled at import
    P10Kset,\* the module-level set(P10K)
    pc,     \* the statement the interpreter is at
    call,   \* the top-level call: [fn, n, rand, accuracy]
    ret,    \* the value the top-level call returned (meaningful at "done")
    first,  \* the value the same call returned the first time it was made
    isp,    \* frame of _is_prime
    rho,    \* frame of _pollard_rho
    pdd,    \* frame of prime_divisor_decomposition
    div     \* frame of all_divisors

vars == <<P10K, P10Kset, pc, call, ret, first, isp, rho, pdd, div>>

\* The module-level tables are never assigned after the import.
tables == <<P10K, P10Kset>>

NoCall == [fn |-> "", n |-> 0, rand |-> FALSE, accuracy |-> 0]
NoFirst == [valid |-> FALSE, ret |-> <<>>]
NoIsp == [p |-> 0, accuracy |-> 0, exponent |-> 0, remainder |-> 0,
          round |-> 0, result |-> FALSE]
NoRho == [n |-> 0, rand |-> FALSE, x |-> 0, y |-> 0, c |-> 0, d |-> 0]
NoPdd == [n |-> 0, rand |-> FALSE, c |-> 0, i |-> 0, p |-> 0,
          dlist |-> <<>>, clist |-> <<>>, result |-> <<>>]
NoDiv == [primefactors |-> <<>>, clist |-> <<>>, output |-> <<>>]

CallArgs ==
    {[fn |-> "_primes_list", n |-> n, rand |-> FALSE, accuracy |-> 0] :
        n \in 6 .. MaxSieveArg}
    \cup {[fn |-> "_mobius_list", n |-> n, rand |-> FALSE, accuracy |-> 0] :
        n \in 1 .. MaxMobiusArg}
    \cup {[fn |-> "_is_prime", n |-> n, rand |-> FALSE, accuracy |-> a] :
        n \in 0 .. MaxIsPrimeArg, a \in 0 .. MaxAccuracy}
    \cup {[fn |-> "_pollard_rho", n |-> n, rand |-> r, accuracy |-> 0] :
        n \in 1 .. MaxRhoArg, r \in BOOLEAN}
    \cup {[fn |-> f, n |-> n, rand |-> r, accuracy |-> 0] :
        f \in {"prime_divisor_decomposition", "all_divisors"},
        n \in (0 .. MaxSmallArg) \cup BigArgs, r \in BOOLEAN}

Init ==
    /\ pc = "idle"
    /\ call = NoCall
    /\ ret = <<>>
    /\ first = NoFirst
    /\ isp = NoIsp
    /\ rho = NoRho
    /\ pdd = NoPdd
    /\ div = NoDiv
    /\ P10K = _primes_list(P10KBound)
    /\ P10Kset = Range(_primes_list(P10KBound))

\* A caller makes a call.
Call ==
    /\ UNCHANGED tables
    /\ pc = "idle"
    /\ call' \in CallArgs
    /\ pc' = "call"
    /\ UNCHANGED <<ret, first, isp, rho, pdd, div>>

\* The caller makes the same call a second time, keeping the first result.
Again ==
    /\ UNCHANGED tables
    /\ pc = "done"
    /\ ~first.valid
    /\ first' = [valid |-> TRUE, ret |-> ret]
    /\ pc' = "call"
    /\ ret' = <<>>
    /\ isp' = NoIsp
    /\ rho' = NoRho
    /\ pdd' = NoPdd
    /\ div' = NoDiv
    /\ UNCHANGED call

\* _primes_list(n), from its first to its last statement.
Run_primes_list ==
    /\ UNCHANGED tables
    /\ pc = "call"
    /\ call.fn = "_primes_list"
    /\ ret' = _primes_list(call.n)
    /\ pc' = "done"
    /\ UNCHANGED <<call, first, isp, rho, pdd, div>>

\* _mobius_list(n), from its first to its last statement.
Run_mobius_list ==
    /\ UNCHANGED tables
    /\ pc = "call"
    /\ call.fn = "_mobius_list"
    /\ ret' = _mobius_list(call.n)
    /\ pc' = "done"
    /\ UNCHANGED <<call, first, isp, rho, pdd, div>>

(***************************************************************************)
(* _is_prime(p, accuracy).                                                 *)
(***************************************************************************)

Enter_is_prime ==
    /\ UNCHANGED tables
    /\ pc = "call"
    /\ call.fn = "_is_prime"
    /\ isp' = [NoIsp EXCEPT !.p = call.n, !.accuracy = call.accuracy]
    /\ pc' = "is_prime"
    /\ UNCHANGED <<call, ret, first, rho, pdd, div>>

\* return v, to the top level or to the residual loop of the factorisation.
IsPrimeReturn(v) ==
    /\ isp' = [isp EXCEPT !.result = v]
    /\ IF call.fn = "_is_prime"
       THEN pc' = "done" /\ ret' = v
       ELSE pc' = "pdd_after_is_prime" /\ UNCHANGED ret

\* The two early returns and _mr_decompose(p - 1).
IsPrimeEntry ==
    /\ UNCHANGED tables
    /\ pc = "is_prime"
    /\ IF isp.p < 2 THEN IsPrimeReturn(FALSE)
       ELSE IF isp.p = 2 \/ isp.p = 3 THEN IsPrimeReturn(TRUE)
       ELSE LET er == _mr_decompose(isp.p - 1)
            IN  /\ isp' = [isp EXCEPT !.exponent = er[1], !.remainder = er[2],
                                      !.round = 0]
                /\ pc' = "mr_loop"
                /\ UNCHANGED ret
    /\ UNCHANGED <<call, first, rho, pdd, div>>

\* One pass of for _ in range(accuracy), or the return True after the last.
IsPrimeRound ==
    /\ UNCHANGED tables
    /\ pc = "mr_loop"
    /\ IF isp.round >= isp.accuracy THEN IsPrimeReturn(TRUE)
       ELSE \E possibleWitness \in Draws(isp.p) :
                IF _mr_isWitness(possibleWitness, isp.p, isp.exponent,
                                 isp.remainder)
                THEN IsPrimeReturn(FALSE)
                ELSE /\ isp' = [isp EXCEPT !.round = @ + 1]
                     /\ UNCHANGED <<pc, ret>>
    /\ UNCHANGED <<call, first, rho, pdd, div>>

(***************************************************************************)
(* _pollard_rho(n, rand).                                                  *)
(***************************************************************************)

\* f(x, c) % n with f = lambda x, c: x*x + c.
RhoF(x, c, n) == (MulMod(x % n, x % n, n) + c) % n

\* The condition of the while loop.
RhoContinue(d, n) == d = 1 /\ d # n

Enter_pollard_rho ==
    /\ UNCHANGED tables
    /\ pc = "call"
    /\ call.fn = "_pollard_rho"
    /\ rho' = [NoRho EXCEPT !.n = call.n, !.rand = call.rand]
    /\ pc' = "rho"
    /\ UNCHANGED <<call, ret, first, isp, pdd, div>>

\* The choice of x and c, then y, d = x, 1.
RhoSeed ==
    /\ UNCHANGED tables
    /\ pc = "rho"
    /\ \E x \in (IF rho.rand THEN Seeds ELSE {1}),
          c \in (IF rho.rand THEN Seeds ELSE {1}) :
            rho' = [rho EXCEPT !.x = x, !.c = c, !.y = x, !.d = 1]
    /\ pc' = "rho_loop"
    /\ UNCHANGED <<call, ret, first, isp, pdd, div>>

\* One pass of the while loop: x once, y twice, then the gcd.
RhoStep ==
    /\ UNCHANGED tables
    /\ pc = "rho_loop"
    /\ RhoContinue(rho.d, rho.n)
    /\ rho' = Bind(RhoF(rho.x, rho.c, rho.n), LAMBDA x :
               Bind(RhoF(rho.y, rho.c, rho.n), LAMBDA y1 :
               Bind(RhoF(y1, rho.c, rho.n), LAMBDA y :
               Bind(y - x, LAMBDA diff :
                    [rho EXCEPT !.x = x, !.y = y,
                                !.d = gcd(diff, rho.n)]))))
    /\ UNCHANGED <<pc, call, ret, first, isp, pdd, div>>

\* return int(d)
RhoReturn ==
    /\ UNCHANGED tables
    /\ pc = "rho_loop"
    /\ ~RhoContinue(rho.d, rho.n)
    /\ IF call.fn = "_pollard_rho"
       THEN pc' = "done" /\ ret' = rho.d
       ELSE pc' = "pdd_after_rho" /\ UNCHANGED ret
    /\ UNCHANGED <<call, first, isp, rho, pdd, div>>

(***************************************************************************)
(* prime_divisor_decomposition(n, rand).                                   *)
(***************************************************************************)

RECURSIVE DivideOutLoop(_, _, _)
DivideOutLoop(n, p, c) ==
    IF n % p = 0 THEN DivideOutLoop(n \div p, p, c + 1) ELSE <<c, n>>

DivideOut_fromOne(n, p) == DivideOutLoop(n, p, 1)

DivideOut_keepN(n, p) == <<DivideOutLoop(n, p, 0)[1], n>>

\* c = 0; while n % p == 0: n //= p; c += 1.  Returns <<c, n>>.
DivideOut(n, p) == DivideOutLoop(n, p, 0)

\* list(zip(dlist, clist))
Zip(dlist, clist) == [j \in 1 .. Len(dlist) |-> <<dlist[j], clist[j]>>]

Enter_prime_divisor_decomposition ==
    /\ UNCHANGED tables
    /\ pc = "call"
    /\ call.fn = "prime_divisor_decomposition"
    /\ pdd' = [NoPdd EXCEPT !.n = call.n, !.rand = call.rand]
    /\ pc' = "pdd_strip2"
    /\ UNCHANGED <<call, ret, first, isp, rho, div>>

\* return list(zip(dlist, clist)) from the frame `frame`, to the top level or
\* to all_divisors.
PddReturn(frame) ==
    LET z == Zip(frame.dlist, frame.clist)
    IN  /\ pdd' = [frame EXCEPT !.result = z]
        /\ IF call.fn = "prime_divisor_decomposition"
           THEN pc' = "done" /\ ret' = z
           ELSE pc' = "div_after_pdd" /\ UNCHANGED ret

\* One pass of while n % 2 == 0.
PddStripStep ==
    /\ UNCHANGED tables
    /\ pc = "pdd_strip2"
    /\ pdd.n % 2 = 0
    /\ pdd.c < MaxExp
    /\ pdd' = [pdd EXCEPT !.n = @ \div 2, !.c = @ + 1]
    /\ UNCHANGED <<pc, call, ret, first, isp, rho, div>>

\* The loop is left; if c: record the factor 2.
PddStripExit ==
    /\ UNCHANGED tables
    /\ pc = "pdd_strip2"
    /\ pdd.n % 2 # 0
    /\ pdd' = [pdd EXCEPT
                 !.dlist = IF pdd.c # 0 THEN Append(@, 2) ELSE @,
                 !.clist = IF pdd.c # 0 THEN Append(@, pdd.c) ELSE @,
                 !.i = 1]
    /\ pc' = "pdd_trial"
    /\ UNCHANGED <<call, ret, first, isp, rho, div>>

\* One pass of for p in iter(P10K), with its two early returns.
PddTrial ==
    /\ UNCHANGED tables
    /\ pc = "pdd_trial"
    /\ LET p == P10K[pdd.i]
           cn == DivideOut(pdd.n, p)
           c == cn[1]
           n == cn[2]
           f1 == [pdd EXCEPT !.p = p, !.c = c, !.n = n,
                     !.dlist = IF c # 0 THEN Append(@, p) ELSE @,
                     !.clist = IF c # 0 THEN Append(@, c) ELSE @]
       IN  IF n = 1 THEN PddReturn(f1)
           ELSE IF n \in P10Kset
           THEN PddReturn([f1 EXCEPT !.dlist = Append(@, n),
                                     !.clist = Append(@, 1)])
           ELSE /\ pdd' = [f1 EXCEPT !.i = @ + 1]
                /\ pc' = IF pdd.i < Len(P10K) THEN "pdd_trial"
                         ELSE "pdd_residual"
                /\ UNCHANGED ret
    /\ UNCHANGED <<call, first, isp, rho, div>>

\* while 1: if n == 1: return ...; otherwise the call is_prime(n).
PddResidual ==
    /\ UNCHANGED tables
    /\ pc = "pdd_residual"
    /\ IF pdd.n = 1
       THEN PddReturn(pdd) /\ UNCHANGED isp
       ELSE /\ isp' = [NoIsp EXCEPT !.p = pdd.n, !.accuracy = DefaultAccuracy]
            /\ pc' = "is_prime"
            /\ UNCHANGED <<pdd, ret>>
    /\ UNCHANGED <<call, first, rho, div>>

\* if is_prime(n): record n and return; otherwise the call _pollard_rho(n, rand).
PddAfterIsPrime ==
    /\ UNCHANGED tables
    /\ pc = "pdd_after_is_prime"
    /\ IF isp.result
       THEN /\ PddReturn([pdd EXCEPT !.dlist = Append(@, pdd.n),
                                     !.clist = Append(@, 1)])
            /\ UNCHANGED rho
       ELSE /\ rho' = [NoRho EXCEPT !.n = pdd.n, !.rand = pdd.rand]
            /\ pc' = "rho"
            /\ UNCHANGED <<pdd, ret>>
    /\ UNCHANGED <<call, first, isp, div>>

\* p = _pollard_rho(n, rand); divide p out; record (p, c) whatever c is.
PddAfterRho ==
    /\ UNCHANGED tables
    /\ pc = "pdd_after_rho"
    /\ LET p == rho.d
           cn == DivideOut(pdd.n, p)
       IN  pdd' = [pdd EXCEPT !.p = p, !.c = cn[1], !.n = cn[2],
                       !.dlist = Append(@, p), !.clist = Append(@, cn[1])]
    /\ pc' = "pdd_residual"
    /\ UNCHANGED <<call, ret, first, isp, rho, div>>

(***************************************************************************)
(* all_divisors(n, rand).                                                  *)
(***************************************************************************)

RECURSIVE Odometer(_, _, _)
\* The inner while 1 from counter k on (counters are numbered from 1 here):
\* carried is TRUE when the last counter carries out.
Odometer(primefactors, clist, k) ==
    LET inc == [clist EXCEPT ![k] = @ + 1]
    IN  IF inc[k] <= primefactors[k][2]
        THEN [carried |-> FALSE, clist |-> inc]
        ELSE LET zeroed == [inc EXCEPT ![k] = 0]
             IN  IF k + 1 > Len(primefactors)
                 THEN [carried |-> TRUE, clist |-> zeroed]
                 ELSE Odometer(primefactors, zeroed, k + 1)

\* if n == 1: return [1]; otherwise the call prime_divisor_decomposition(n, rand).
Enter_all_divisors ==
    /\ UNCHANGED tables
    /\ pc = "call"
    /\ call.fn = "all_divisors"
    /\ IF call.n = 1
       THEN pc' = "done" /\ ret' = <<1>> /\ UNCHANGED pdd
       ELSE /\ pdd' = [NoPdd EXCEPT !.n = call.n, !.rand = call.rand]
            /\ pc' = "pdd_strip2"
            /\ UNCHANGED ret
    /\ UNCHANGED <<call, first, isp, rho, div>>

\* d = len(primefactors); clist = [0] * d; output = []
DivAfterPdd ==
    /\ UNCHANGED tables
    /\ pc = "div_after_pdd"
    /\ div' = [primefactors |-> pdd.result,
               clist |-> [j \in 1 .. Len(pdd.result) |-> 0],
               output |-> <<>>]
    /\ pc' = "div_loop"
    /\ UNCHANGED <<call, ret, first, isp, rho, pdd>>

\* One pass of the outer while 1: emit a product, advance the counters, and
\* return sorted(output) when the last counter carries out.
DivLoop ==
    /\ UNCHANGED tables
    /\ pc = "div_loop"
    /\ LET pf == div.primefactors
           out == Append(div.output,
                         cprod([j \in 1 .. Len(pf) |->
                                   IntPow(pf[j][1], div.clist[j])]))
           od == Odometer(pf, div.clist, 1)
       IN  /\ div' = [div EXCEPT !.output = out, !.clist = od.clist]
           /\ IF od.carried
              THEN pc' = "done" /\ ret' = SortSeq(out, LAMBDA a, b : a < b)
              ELSE UNCHANGED <<pc, ret>>
    /\ UNCHANGED <<call, first, isp, rho, pdd>>

Next ==
    \/ Call
    \/ Again
    \/ Run_primes_list
    \/ Run_mobius_list
    \/ Enter_is_prime
    \/ IsPrimeEntry
    \/ IsPrimeRound
    \/ Enter_pollard_rho
    \/ RhoSeed
    \/ RhoStep
    \/ RhoReturn
    \/ Enter_prime_divisor_decomposition
    \/ PddStripStep
    \/ PddStripExit
    \/ PddTrial
    \/ PddResidual
    \/ PddAfterIsPrime
    \/ PddAfterRho
    \/ Enter_all_divisors
    \/ DivAfterPdd
    \/ DivLoop

Spec == Init /\ [][Next]_vars

\* The statements of prime_divisor_decomposition and of the two functions it
\* calls.
PddProgress ==
    \/ IsPrimeEntry
    \/ IsPrimeRound
    \/ RhoSeed
    \/ RhoStep
    \/ RhoReturn
    \/ PddStripStep
    \/ PddStripExit
    \/ PddTrial
    \/ PddResidual
    \/ PddAfterIsPrime
    \/ PddAfterRho

\* The interpreter is synchronous and single-threaded: a call that has a next
\* statement executes it.
FairSpec == Spec /\ WF_vars(PddProgress)

(***************************************************************************)
(* Reference notions the claims are stated with: primality, divisibility   *)
(* and the Moebius function by their definitions, independent of the code. *)
(***************************************************************************)

\* Trial division by every d with d*d <= p.
IsPrimeRef(p) ==
    /\ p >= 2
    /\ \A d \in 2 .. isqrt(p) : p % d # 0

MobiusRef(k) ==
    LET ps == {p \in 2 .. k : IsPrimeRef(p) /\ k % p = 0}
    IN  IF k = 1 THEN 1
        ELSE IF \E p \in ps : k % (p * p) = 0 THEN 0
        ELSE IF Cardinality(ps) % 2 = 0 THEN 1 ELSE -1

StrictlyIncreasing(s) == \A j \in 1 .. (Len(s) - 1) : s[j] < s[j + 1]

\* The product of p^e over a sequence of pairs <<p, e>>.
PairProduct(s) == cprod([j \in 1 .. Len(s) |-> IntPow(s[j][1], s[j][2])])

\* prime_divisor_decomposition has returned (to the top level or to
\* all_divisors); its value is pdd.result and its argument call.n.
PddReturned ==
    \/ pc = "done" /\ call.fn = "prime_divisor_decomposition"
    \/ pc = "div_after_pdd"

\* _pollard_rho has returned; its value is rho.d and its argument rho.n.
RhoReturned ==
    \/ pc = "done" /\ call.fn = "_pollard_rho"
    \/ pc = "pdd_after_rho"

\* _is_prime has returned; its value is isp.result and its argument isp.p.
IsPrimeReturned ==
    \/ pc = "done" /\ call.fn = "_is_prime"
    \/ pc = "pdd_after_is_prime"

(***************************************************************************)
(* Claims.                                                                 *)
(***************************************************************************)

\* C1: for every n >= 1, with or without random seeds, the pairs (p, e)
\* returned by prime_divisor_decomposition(n) multiply to n exactly, and the
\* list is empty for n = 1.
C1_ProductIsN ==
    (PddReturned /\ call.n >= 1) =>
        /\ PairProduct(pdd.result) = call.n
        /\ (call.n = 1 => pdd.result = <<>>)

\* C1 witness: a factorisation into two pairs was returned after a randomly
\* seeded _pollard_rho call supplied a factor.
C1_Witness ==
    /\ pc = "done"
    /\ call.fn = "prime_divisor_decomposition"
    /\ call.rand
    /\ rho.d > 1
    /\ Len(ret) = 2
    /\ PairProduct(ret) = call.n

\* C2: every pair (p, e) returned by prime_divisor_decomposition(n), n >= 1,
\* has p prime and e >= 1.
C2_PrimePairs ==
    (PddReturned /\ call.n >= 1) =>
        \A j \in 1 .. Len(pdd.result) :
            IsPrimeRef(pdd.result[j][1]) /\ pdd.result[j][2] >= 1

\* C3: for every composite n >= 4, _pollard_rho(n, rand) returns a divisor d
\* of n with 1 < d < n.
C3_NonTrivialFactor ==
    (RhoReturned /\ rho.n >= 4 /\ ~IsPrimeRef(rho.n)) =>
        /\ 1 < rho.d
        /\ rho.d < rho.n
        /\ rho.n % rho.d = 0

\* C4: _is_prime has no false negative: for a prime p the decomposition is
\* p - 1 = 2^exponent * remainder with remainder odd, no value that can be
\* drawn is a witness, and the call returns True.
C4_NoFalseNegative ==
    /\ (pc = "mr_loop" /\ call.fn = "_is_prime" /\ IsPrimeRef(isp.p)) =>
          /\ isp.remainder % 2 = 1
          /\ isp.remainder * IntPow(2, isp.exponent) = isp.p - 1
          /\ \A a \in Draws(isp.p) :
                ~_mr_isWitness(a, isp.p, isp.exponent, isp.remainder)
    /\ (IsPrimeReturned /\ IsPrimeRef(isp.p)) => isp.result

\* C4 witness: _is_prime returned True for a prime p >= 5 after all of its
\* accuracy >= 1 rounds.
C4_Witness ==
    /\ pc = "done"
    /\ call.fn = "_is_prime"
    /\ call.n >= 5
    /\ IsPrimeRef(call.n)
    /\ call.accuracy >= 1
    /\ isp.round = call.accuracy
    /\ ret = TRUE

\* C5: for n >= 6, _primes_list(n) is strictly increasing and holds exactly
\* the primes p with 2 <= p < n.
C5_SieveExact ==
    (pc = "done" /\ call.fn = "_primes_list") =>
        /\ StrictlyIncreasing(ret)
        /\ Range(ret) = {p \in 2 .. (call.n - 1) : IsPrimeRef(p)}

\* C5 witness: the sieve of a bound n >= 100 returned a list with 97 in it.
C5_Witness ==
    /\ pc = "done"
    /\ call.fn = "_primes_list"
    /\ call.n >= 100
    /\ 97 \in Range(ret)

\* C6: for n >= 1 and 1 <= k <= n, _mobius_list(n)[k] is the Moebius
\* function of k.
C6_MobiusExact ==
    (pc = "done" /\ call.fn = "_mobius_list") =>
        \A k \in 1 .. call.n : ret[k] = MobiusRef(k)

\* C6 witness: a table for n < 25 (the sieve was called with a bound below 6)
\* in which the sign flip produced mu(7) = -1 and mu(10) = 1.
C6_Witness ==
    /\ pc = "done"
    /\ call.fn = "_mobius_list"
    /\ call.n >= 10
    /\ call.n < 25
    /\ ret[7] = -1
    /\ ret[10] = 1

\* C7: for n >= 1, all_divisors(n) is the ascending duplicate-free list of
\* exactly the divisors of n, with 1 and n in it, and as long as the product
\* of (e + 1) over the pairs of the factorisation.
C7_ExactDivisors ==
    (pc = "done" /\ call.fn = "all_divisors" /\ call.n >= 1) =>
        /\ StrictlyIncreasing(ret)
        /\ ret[1] = 1
        /\ ret[Len(ret)] = call.n
        /\ \A j \in 1 .. Len(ret) : call.n % ret[j] = 0
        /\ \A d \in 1 .. isqrt(call.n) :
              (call.n % d = 0) =>
                  (d \in Range(ret) /\ (call.n \div d) \in Range(ret))
        /\ Len(ret) = cprod([j \in 1 .. Len(pdd.result) |->
                                pdd.result[j][2] + 1])

\* C8: a call of prime_divisor_decomposition or all_divisors with n < 1 is
\* rejected: once made, it is in the InvalidArgument outcome and nowhere else.
C8_RejectsNonPositive ==
    (/\ call.fn \in {"prime_divisor_decomposition", "all_divisors"}
     /\ call.n < 1
     /\ pc \notin {"idle", "call"}) => pc = "InvalidArgument"

\* C9: a second call of prime_divisor_decomposition(n, rand=True) or of
\* all_divisors(n, rand=True), n >= 1, returns what the first call returned,
\* whatever seeds the two calls draw.
C9_SameResultTwice ==
    (/\ pc = "done"
     /\ first.valid
     /\ call.fn \in {"prime_divisor_decomposition", "all_divisors"}
     /\ call.n >= 1
     /\ call.rand) => ret = first.ret

\* C10: for n >= 1 prime_divisor_decomposition(n) eventually returns; every
\* _pollard_rho call it makes returns a divisor d > 1 of the cofactor, and
\* dividing it out makes the cofactor smaller.
C10_Terminates ==
    /\ []((pc = "pdd_after_rho" /\ call.n >= 1) =>
             (rho.d > 1 /\ rho.n % rho.d = 0))
    /\ [][(pc = "pdd_after_rho" /\ call.n >= 1) => pdd'.n < pdd.n]_vars
    /\ ((pc = "pdd_strip2" /\ call.n >= 1) ~> PddReturned)

\* C10 witness: a factorisation returned after the fixed seed made
\* _pollard_rho return a proper factor of the cofactor.
C10_Witness ==
    /\ PddReturned
    /\ ~call.rand
    /\ call.n >= 1
    /\ rho.d > 1
    /\ rho.d < rho.n
====
